---- MODULE Spec2Model ----
(***************************************************************************)
(* netview: the live connection table of src/src/app.rs (struct App and    *)
(* its event handlers) together with the table renderer of src/src/ui.rs   *)
(* (render_connection_table).                                              *)
(*                                                                         *)
(* Strings are sequences of byte codes, compared the way Rust compares     *)
(* String/&str (lexicographically by byte).  Option<T> is a sequence of    *)
(* length at most one: None == <<>>, Some(x) == <<x>>.                     *)
(* ConnectionEntry.creation_time is left out: no handler reads it and      *)
(* PartialEq (app.rs:67-77) ignores it.                                    *)
(***************************************************************************)
EXTENDS Integers, Sequences, FiniteSets, TLC

VARIABLES
    entries,                  \* App.entries: Vec<ConnectionEntry>
    selected,                 \* App.selected: Option<ConnectionEntry>
    paused,                   \* App.paused
    sort_column,              \* App.sort_column
    sort_order,               \* App.sort_order
    ip_version_filter,        \* App.ip_version_filter
    protocol_filter,          \* App.protocol_filter
    resolve_address_names,    \* App.resolve_address_names
    dns_cache,                \* App.dns_cache: HashMap<IpAddr, String>
    scroll_connection_table,  \* App.scroll_connection_table (Cell<usize>, ui.rs)
    visible_table_height,     \* App.visible_table_height (Cell<usize>, ui.rs)
    pc,                       \* position in App::run: "draw" | "event" | "panicked", or inside
                              \* update_connection_entries: "collect" (line 332) | "built" (line 378)
                              \* | "sorted" (line 379)
    overflow_checks,          \* build profile: TRUE = debug (overflow panics), FALSE = release (wraps)
    lookups,                  \* history: number of dns_lookup::lookup_addr calls per address
    prior_entries,            \* history (kept by SpecNav): App.entries as the last refresh found it
    budget,                   \* number of events App::run is still followed for (negative: no limit)
    refresh                   \* the locals of the update_connection_entries call last entered, when
                              \* its loop is followed record by record: Option<[source, next, procs]>

vars == <<entries, selected, paused, sort_column, sort_order, ip_version_filter,
          protocol_filter, resolve_address_names, dns_cache,
          scroll_connection_table, visible_table_height, pc, overflow_checks,
          lookups, prior_entries, budget, refresh>>

-----------------------------------------------------------------------------
(* Option<T> *)
None == <<>>
Some(x) == <<x>>
IsSome(o) == Len(o) = 1
Unwrap(o) == o[1]

-----------------------------------------------------------------------------
(* Ordering and comparison of primitive values *)

\* std::cmp::Ordering
Less == -1
Equal == 0
Greater == 1

\* Ordering::reverse
Reverse(ord) == 0 - ord

\* Ord::cmp on u16 / u32
NumCmp(a, b) == IF a < b THEN Less ELSE IF a > b THEN Greater ELSE Equal

\* Ord::cmp on String: lexicographic by byte, a proper prefix is Less
RECURSIVE StrCmp(_, _)
StrCmp(a, b) ==
    IF a = <<>> /\ b = <<>> THEN Equal
    ELSE IF a = <<>> THEN Less
    ELSE IF b = <<>> THEN Greater
    ELSE IF Head(a) < Head(b) THEN Less
    ELSE IF Head(a) > Head(b) THEN Greater
    ELSE StrCmp(Tail(a), Tail(b))

\* str::is_empty
IsEmpty(s) == Len(s) = 0

\* u16 / u32 to_string: decimal digits
RECURSIVE Digits(_)
Digits(n) == IF n < 10 THEN <<48 + n>> ELSE Digits(n \div 10) \o <<48 + (n % 10)>>

-----------------------------------------------------------------------------
(* Bounds of the model *)

\* longest socket list the Raw State Source returns in one refresh (Spec)
MaxSockets == 2
\* number of events App::run handles before Spec stops following it
MaxSteps == 3
\* largest terminal area height handed to the renderer
MaxAreaHeight == 4
\* longest list handed to sort_entries in SpecSort
MaxSortLen == 4
\* longest socket list the Raw State Source returns in one refresh (SpecNav)
MaxNavSockets == 3
\* longest socket list the Raw State Source returns in one refresh (SpecFilter)
MaxFilterSockets == 2
\* longest socket list the Raw State Source returns in one refresh (SpecDns)
MaxDnsSockets == 2
\* longest socket list the Raw State Source returns in one refresh (SpecCache)
MaxCacheSockets == 1
\* longest socket list, repetitions included, the Raw State Source returns
\* in one refresh (SpecFind)
MaxFindSockets == 3
\* longest socket list the Raw State Source returns in one refresh (SpecIdentity)
MaxIdSockets == 2
\* longest socket list, repetitions included, the Raw State Source returns
\* in one refresh (SpecSteps)
MaxStepSockets == 2
\* longest socket list the Raw State Source returns in one refresh (SpecResolve)
MaxResolveSockets == 2
\* longest socket list the Raw State Source returns in one refresh (SpecOrder)
MaxOrderSockets == 2

-----------------------------------------------------------------------------
(* Enums of app.rs *)

SortColumns == {"Proto", "LocalIP", "LocalPort", "RemoteIP", "RemotePort", "State", "PID", "Process"}
SortOrders == {"Asc", "Desc"}
IpVersionFilters == {"Ipv4Only", "Ipv6Only", "Ipv4AndIpv6"}
ProtocolFilters == {"TcpOnly", "UdpOnly", "TcpAndUdp"}

-----------------------------------------------------------------------------
(* The external collaborators: addresses, sockets, processes, resolver *)

\* std::net::IpAddr values the Raw State Source reports
Ip4A == [family |-> "V4", octets |-> <<10, 0, 0, 1>>]
Ip4B == [family |-> "V4", octets |-> <<10, 0, 0, 2>>]
Ip6Loopback == [family |-> "V6", octets |-> <<0, 0, 0, 0, 0, 0, 0, 1>>]
IpAddrs == {Ip4A, Ip4B, Ip6Loopback}

IsIpv4(ip) == ip.family = "V4"
IsIpv6(ip) == ip.family = "V6"

\* IpAddr::to_string: dotted decimal for V4; "::1" for the V6 loopback
IpToString(ip) ==
    IF IsIpv4(ip)
    THEN Digits(ip.octets[1]) \o <<46>> \o Digits(ip.octets[2]) \o <<46>>
         \o Digits(ip.octets[3]) \o <<46>> \o Digits(ip.octets[4])
    ELSE <<58, 58, 49>>

\* format!("{:?}", tcp.state) for the TcpState values used
TcpStateDebug(st) ==
    IF st = "Established"
    THEN <<69, 115, 116, 97, 98, 108, 105, 115, 104, 101, 100>>
    ELSE <<84, 105, 109, 101, 87, 97, 105, 116>>   \* "TimeWait"

\* netstat2::SocketInfo records the Raw State Source can report
TcpSocket(la, lp, ra, rp, st, pids) ==
    [proto |-> "Tcp", local_addr |-> la, local_port |-> lp, remote_addr |-> ra,
     remote_port |-> rp, state |-> st, associated_pids |-> pids]
\* (UdpSocketInfo has no remote address, port or state: the three fields are
\* placeholders that no definition reads for a Udp record)
UdpSocket(la, lp, pids) ==
    [proto |-> "Udp", local_addr |-> la, local_port |-> lp, remote_addr |-> la,
     remote_port |-> 0, state |-> "", associated_pids |-> pids]

SockT4 == TcpSocket(Ip4A, 22, Ip4B, 5, "Established", <<10>>)
SockU4 == UdpSocket(Ip4A, 53, <<20>>)
SockT6 == TcpSocket(Ip6Loopback, 80, Ip6Loopback, 443, "TimeWait", <<>>)
SockU6 == UdpSocket(Ip6Loopback, 53, <<20, 10>>)
Sockets == {SockT4, SockU4, SockT6, SockU6}

RECURSIVE SeqsUpTo(_, _)
SeqsUpTo(S, n) ==
    IF n = 0 THEN {<<>>}
    ELSE LET shorter == SeqsUpTo(S, n - 1)
         IN shorter \cup {Append(q, x) : q \in {r \in shorter : Len(r) = n - 1}, x \in S}

\* get_sockets_info(..): Result<Vec<SocketInfo>, Error>; None stands for Err
SourceResults == {None} \cup {Some(q) : q \in SeqsUpTo(Sockets, MaxSockets)}

\* sysinfo process tables: pid -> Option<name>; "sshd" and "ntpd"
ProcSshd == <<115, 115, 104, 100>>
ProcNtpd == <<110, 116, 112, 100>>
ProcTables ==
    { [pid \in {0, 10, 20} |-> IF pid = 10 THEN Some(ProcSshd) ELSE IF pid = 20 THEN Some(ProcNtpd) ELSE None],
      [pid \in {0, 10, 20} |-> IF pid = 20 THEN Some(ProcNtpd) ELSE None] }

\* dns_lookup::lookup_addr answers: Option<hostname> per address, None stands for Err
HostName(ip) == IF ip = Ip4A THEN <<103, 119>>          \* "gw"
                ELSE IF ip = Ip4B THEN <<110, 97, 115>> \* "nas"
                ELSE <<108, 111>>                       \* "lo"
LookupAddr(resolver, ip) == IF resolver[ip] THEN Some(HostName(ip)) ELSE None
\* the answers the resolver can be asked for during one refresh: it is only
\* called for addresses that are not cached, and only with resolution enabled
Resolvers(resolve, cache) ==
    IF resolve THEN [IpAddrs \ DOMAIN cache -> BOOLEAN] ELSE {[ip \in {} |-> TRUE]}

-----------------------------------------------------------------------------
(* ConnectionEntry *)

\* impl PartialEq for ConnectionEntry: process (and creation_time) are not compared
\* variant: an equality that also compares the process name
EntryEqWithProcess(a, b) ==
    /\ a.proto = b.proto
    /\ a.local_ip = b.local_ip
    /\ a.local_port = b.local_port
    /\ a.remote_ip = b.remote_ip
    /\ a.remote_port = b.remote_port
    /\ a.state = b.state
    /\ a.pid = b.pid
    /\ a.process = b.process

EntryEq(a, b) ==
    /\ a.proto = b.proto
    /\ a.local_ip = b.local_ip
    /\ a.local_port = b.local_port
    /\ a.remote_ip = b.remote_ip
    /\ a.remote_port = b.remote_port
    /\ a.state = b.state
    /\ a.pid = b.pid

\* ConnectionEntry::get_id: "{local_port}:{remote_port}:{pid}:{proto}"
GetId(e) ==
    Digits(e.local_port) \o <<58>> \o Digits(e.remote_port) \o <<58>>
    \o Digits(e.pid) \o <<58>> \o e.proto

StrTCP == <<84, 67, 80>>
StrUDP == <<85, 68, 80>>

-----------------------------------------------------------------------------
(* Filtering *)

\* App::show_connection, with its early returns
\* variant: show_connection whose Udp arm does not look at the address family
ShowConnectionUdpAnyFamily(socket_info, pfilter, ipfilter) ==
    IF socket_info.proto = "Tcp"
    THEN IF pfilter = "UdpOnly" THEN FALSE
         ELSE IF IsIpv4(socket_info.local_addr) /\ ipfilter = "Ipv6Only" THEN FALSE
         ELSE IF IsIpv6(socket_info.local_addr) /\ ipfilter = "Ipv4Only" THEN FALSE
         ELSE TRUE
    ELSE IF pfilter = "TcpOnly" THEN FALSE
         ELSE TRUE

\* App::show_connection
ShowConnection(socket_info, pfilter, ipfilter) ==
    IF socket_info.proto = "Tcp"
    THEN IF pfilter = "UdpOnly" THEN FALSE
         ELSE IF IsIpv4(socket_info.local_addr) /\ ipfilter = "Ipv6Only" THEN FALSE
         ELSE IF IsIpv6(socket_info.local_addr) /\ ipfilter = "Ipv4Only" THEN FALSE
         ELSE TRUE
    ELSE IF pfilter = "TcpOnly" THEN FALSE
         ELSE IF IsIpv4(socket_info.local_addr) /\ ipfilter = "Ipv6Only" THEN FALSE
         ELSE IF IsIpv6(socket_info.local_addr) /\ ipfilter = "Ipv4Only" THEN FALSE
         ELSE TRUE

-----------------------------------------------------------------------------
(* Name resolution.  The resolution state threaded through a refresh is   *)
(* [cache: dns_cache, calls: lookups].                                     *)

\* HashMap::get / HashMap::insert on dns_cache (a function on the cached keys)
CacheGet(cache, ip) == IF ip \in DOMAIN cache THEN Some(cache[ip]) ELSE None
\* variant: an insert that writes the name under every key
CacheInsertEverywhere(cache, ip, name) ==
    [k \in DOMAIN cache \cup {ip} |-> name]

CacheInsert(cache, ip, name) ==
    [k \in DOMAIN cache \cup {ip} |-> IF k = ip THEN name ELSE cache[k]]

\* variant: resolve_dns that caches only the names of successful lookups
ResolveDnsSuccessOnlyCached(ip, st, resolver) ==
    IF IsSome(CacheGet(st.cache, ip))
    THEN [name |-> Unwrap(CacheGet(st.cache, ip)), cache |-> st.cache, calls |-> st.calls]
    ELSE LET answer == LookupAddr(resolver, ip)
             hostname == IF IsSome(answer) THEN Unwrap(answer) ELSE IpToString(ip)
         IN [name |-> hostname,
             cache |-> IF IsSome(answer) THEN CacheInsert(st.cache, ip, hostname)
                       ELSE st.cache,
             calls |-> [st.calls EXCEPT ![ip] = @ + 1]]

\* App::resolve_dns: [name, cache, calls] after resolving ip
ResolveDns(ip, st, resolver) ==
    IF IsSome(CacheGet(st.cache, ip))
    THEN [name |-> Unwrap(CacheGet(st.cache, ip)), cache |-> st.cache, calls |-> st.calls]
    ELSE LET answer == LookupAddr(resolver, ip)
             hostname == IF IsSome(answer) THEN Unwrap(answer) ELSE IpToString(ip)
         IN [name |-> hostname,
             cache |-> CacheInsert(CacheInsert(st.cache, ip, hostname), ip, hostname),
             calls |-> [st.calls EXCEPT ![ip] = @ + 1]]

\* App::ip_to_string
IpToStringResolved(ip, resolve, st, resolver) ==
    IF resolve
    THEN ResolveDns(ip, st, resolver)
    ELSE [name |-> IpToString(ip), cache |-> st.cache, calls |-> st.calls]

-----------------------------------------------------------------------------
(* Sorting *)

\* variant: string_compare_with_empty without its Desc arm: the Asc arm for both orders
StringCompareWithEmptyAscOnly(a, b, order) ==
    IF IsEmpty(a) /\ IsEmpty(b) THEN Equal
    ELSE IF IsEmpty(a) THEN Greater
    ELSE IF IsEmpty(b) THEN Less
    ELSE StrCmp(a, b)

\* string_compare_with_empty
StringCompareWithEmpty(a, b, order) ==
    IF order = "Asc"
    THEN IF IsEmpty(a) /\ IsEmpty(b) THEN Equal
         ELSE IF IsEmpty(a) THEN Greater
         ELSE IF IsEmpty(b) THEN Less
         ELSE StrCmp(a, b)
    ELSE IF IsEmpty(a) /\ IsEmpty(b) THEN Equal
         ELSE IF IsEmpty(a) THEN Less
         ELSE IF IsEmpty(b) THEN Greater
         ELSE StrCmp(a, b)

\* variant: remote_port_compare as the plain numeric comparison
RemotePortComparePlain(a, b, order) == NumCmp(a, b)

\* remote_port_compare
RemotePortCompare(a, b, order) ==
    IF order = "Asc"
    THEN IF a = 0 /\ b = 0 THEN Equal
         ELSE IF a = 0 THEN Greater
         ELSE IF b = 0 THEN Less
         ELSE NumCmp(a, b)
    ELSE IF a = 0 /\ b = 0 THEN Equal
         ELSE IF a = 0 THEN Less
         ELSE IF b = 0 THEN Greater
         ELSE NumCmp(a, b)

\* the match on self.sort_column inside the closure of App::sort_entries
ColumnCmp(a, b, column, order) ==
    CASE column = "Proto" -> StrCmp(a.proto, b.proto)
      [] column = "LocalIP" -> StrCmp(a.local_ip, b.local_ip)
      [] column = "LocalPort" -> NumCmp(a.local_port, b.local_port)
      [] column = "RemoteIP" -> StringCompareWithEmpty(a.remote_ip, b.remote_ip, order)
      [] column = "RemotePort" -> RemotePortCompare(a.remote_port, b.remote_port, order)
      [] column = "State" -> StringCompareWithEmpty(a.state, b.state, order)
      [] column = "PID" -> NumCmp(a.pid, b.pid)
      [] column = "Process" -> StringCompareWithEmpty(a.process, b.process, order)

\* variant: the closure without the reversal for Desc
SortCmpNoReverse(a, b, column, order) == ColumnCmp(a, b, column, order)

\* the closure handed to sort_by in App::sort_entries
SortCmp(a, b, column, order) ==
    IF order = "Asc" THEN ColumnCmp(a, b, column, order)
    ELSE Reverse(ColumnCmp(a, b, column, order))

\* variant: an insertion that puts x before the elements it ties with
RECURSIVE InsertBeforeEqual(_, _, _, _)
InsertBeforeEqual(sorted, x, column, order) ==
    IF sorted = <<>> THEN <<x>>
    ELSE IF SortCmp(x, Head(sorted), column, order) # Greater
         THEN <<x>> \o sorted
         ELSE <<Head(sorted)>> \o InsertBeforeEqual(Tail(sorted), x, column, order)

\* slice::sort_by is a stable sort: x goes before the first element that
\* compares Greater than it, after every element comparing Less or Equal
RECURSIVE InsertStable(_, _, _, _)
InsertStable(sorted, x, column, order) ==
    IF sorted = <<>> THEN <<x>>
    ELSE IF SortCmp(x, Head(sorted), column, order) = Less
         THEN <<x>> \o sorted
         ELSE <<Head(sorted)>> \o InsertStable(Tail(sorted), x, column, order)

RECURSIVE SortBy(_, _, _, _)
SortBy(es, acc, column, order) ==
    IF es = <<>> THEN acc
    ELSE SortBy(Tail(es), InsertStable(acc, Head(es), column, order), column, order)

\* App::sort_entries
\* variant: sort_entries that leaves the list as it is
SortEntriesKeepingOrder(es, column, order) == es

SortEntries(es, column, order) == SortBy(es, <<>>, column, order)

\* Vec::dedup: of each run of consecutive equal (==) elements the first is kept
RECURSIVE Dedup(_)
Dedup(es) ==
    IF Len(es) <= 1 THEN es
    ELSE IF EntryEq(es[1], es[2])
         THEN Dedup(<<es[1]>> \o Tail(Tail(es)))
         ELSE <<es[1]>> \o Dedup(Tail(es))

-----------------------------------------------------------------------------
(* Refresh *)

\* conn.associated_pids.first().copied().unwrap_or(0)
FirstPid(socket_info) ==
    IF socket_info.associated_pids = <<>> THEN 0 ELSE Head(socket_info.associated_pids)

\* sys.process(pid).map(|p| p.name().to_string()).unwrap_or_default()
ProcName(procs, pid) == IF IsSome(procs[pid]) THEN Unwrap(procs[pid]) ELSE <<>>

\* the body of the `for conn in sockets` loop of App::update_connection_entries:
\* acc is [entries, cache, calls]
\* variant: the addresses of a record are resolved before the record is
\* tested against the filters
PushConnectionResolvingFirst(conn, acc, pfilter, ipfilter, resolve, procs, resolver) ==
    LET pid == FirstPid(conn)
        proc_name == ProcName(procs, pid)
        st0 == [cache |-> acc.cache, calls |-> acc.calls]
        l == IpToStringResolved(conn.local_addr, resolve, st0, resolver)
        r == IF conn.proto = "Tcp"
             THEN IpToStringResolved(conn.remote_addr, resolve,
                                     [cache |-> l.cache, calls |-> l.calls], resolver)
             ELSE [name |-> <<>>, cache |-> l.cache, calls |-> l.calls]
    IN IF ~ShowConnection(conn, pfilter, ipfilter)
       THEN [entries |-> acc.entries, cache |-> r.cache, calls |-> r.calls]
       ELSE [entries |-> Append(acc.entries,
                    [proto |-> IF conn.proto = "Tcp" THEN StrTCP ELSE StrUDP,
                     local_ip |-> l.name, local_port |-> conn.local_port,
                     remote_ip |-> r.name,
                     remote_port |-> IF conn.proto = "Tcp" THEN conn.remote_port ELSE 0,
                     state |-> IF conn.proto = "Tcp" THEN TcpStateDebug(conn.state) ELSE <<>>,
                     pid |-> pid,
                     process |-> proc_name]),
             cache |-> r.cache, calls |-> r.calls]

PushConnection(conn, acc, pfilter, ipfilter, resolve, procs, resolver) ==
    LET pid == FirstPid(conn)
        proc_name == ProcName(procs, pid)
        st0 == [cache |-> acc.cache, calls |-> acc.calls]
    IN IF ~ShowConnection(conn, pfilter, ipfilter) THEN acc
       ELSE IF conn.proto = "Tcp"
       THEN LET l == IpToStringResolved(conn.local_addr, resolve, st0, resolver)
                r == IpToStringResolved(conn.remote_addr, resolve,
                                        [cache |-> l.cache, calls |-> l.calls], resolver)
            IN [entries |-> Append(acc.entries,
                    [proto |-> StrTCP, local_ip |-> l.name, local_port |-> conn.local_port,
                     remote_ip |-> r.name, remote_port |-> conn.remote_port,
                     state |-> TcpStateDebug(conn.state), pid |-> pid,
                     process |-> proc_name]),
                cache |-> r.cache, calls |-> r.calls]
       ELSE LET l == IpToStringResolved(conn.local_addr, resolve, st0, resolver)
            IN [entries |-> Append(acc.entries,
                    [proto |-> StrUDP, local_ip |-> l.name, local_port |-> conn.local_port,
                     remote_ip |-> <<>>, remote_port |-> 0,
                     state |-> <<>>, pid |-> pid,
                     process |-> proc_name]),
                cache |-> l.cache, calls |-> l.calls]

RECURSIVE CollectConnections(_, _, _, _, _, _, _)
CollectConnections(sockets, acc, pfilter, ipfilter, resolve, procs, resolver) ==
    IF sockets = <<>> THEN acc
    ELSE CollectConnections(Tail(sockets),
             PushConnection(Head(sockets), acc, pfilter, ipfilter, resolve, procs, resolver),
             pfilter, ipfilter, resolve, procs, resolver)

\* App::update_connection_entries: [entries, cache, calls] after the refresh
UpdateConnectionEntries(source, procs, resolver, pfilter, ipfilter, resolve, column, order, cache, calls) ==
    LET empty == [entries |-> <<>>, cache |-> cache, calls |-> calls]
        built == IF IsSome(source)
                 THEN CollectConnections(Unwrap(source), empty, pfilter, ipfilter,
                                         resolve, procs, resolver)
                 ELSE empty
    IN [entries |-> Dedup(SortEntries(built.entries, column, order)),
        cache |-> built.cache, calls |-> built.calls]

-----------------------------------------------------------------------------
(* Selection *)

\* variant: find_previous_entry that answers with the first entry of the list
FindPreviousEntryToTop(es, entry) ==
    IF \E i \in 2..Len(es) : EntryEq(es[i], entry) THEN Some(es[1]) ELSE None

\* variant: find_next_entry that wraps round from the last entry to the first
FindNextEntryWrapping(es, entry) ==
    IF \E i \in 1..(Len(es) - 1) : EntryEq(es[i], entry)
    THEN Some(es[1 + CHOOSE i \in 1..(Len(es) - 1) :
                       /\ EntryEq(es[i], entry)
                       /\ \A k \in 1..(i - 1) : ~EntryEq(es[k], entry)])
    ELSE IF Len(es) >= 2 /\ EntryEq(es[Len(es)], entry) THEN Some(es[1])
    ELSE None

\* App::find_previous_entry: entries.windows(2), first window whose second
\* element equals entry
RECURSIVE FindPreviousEntry(_, _)
FindPreviousEntry(es, entry) ==
    IF Len(es) < 2 THEN None
    ELSE IF EntryEq(es[2], entry) THEN Some(es[1])
    ELSE FindPreviousEntry(Tail(es), entry)

\* App::find_next_entry: first window whose first element equals entry
RECURSIVE FindNextEntry(_, _)
FindNextEntry(es, entry) ==
    IF Len(es) < 2 THEN None
    ELSE IF EntryEq(es[1], entry) THEN Some(es[2])
    ELSE FindNextEntry(Tail(es), entry)

\* variant: scroll_up_selection that starts from the last row
ScrollUpSelectedFromLast(es, sel) ==
    IF es = <<>> THEN sel
    ELSE IF IsSome(sel)
         THEN IF IsSome(FindPreviousEntry(es, Unwrap(sel)))
              THEN Some(Unwrap(FindPreviousEntry(es, Unwrap(sel))))
              ELSE sel
         ELSE Some(es[Len(es)])

\* App::scroll_up_selection: the new value of selected
ScrollUpSelected(es, sel) ==
    IF es = <<>> THEN sel
    ELSE IF IsSome(sel)
         THEN IF IsSome(FindPreviousEntry(es, Unwrap(sel)))
              THEN Some(Unwrap(FindPreviousEntry(es, Unwrap(sel))))
              ELSE sel
         ELSE Some(Head(es))

\* variant: scroll_down_selection that drops the selection when there is no next entry
ScrollDownSelectedOrNone(es, sel) ==
    IF es = <<>> THEN sel
    ELSE IF IsSome(sel)
         THEN FindNextEntry(es, Unwrap(sel))
         ELSE Some(Head(es))

\* App::scroll_down_selection: the new value of selected
ScrollDownSelected(es, sel) ==
    IF es = <<>> THEN sel
    ELSE IF IsSome(sel)
         THEN IF IsSome(FindNextEntry(es, Unwrap(sel)))
              THEN Some(Unwrap(FindNextEntry(es, Unwrap(sel))))
              ELSE sel
         ELSE Some(Head(es))

\* App.selected_index, read by the renderer: the 0-based index of the first
\* entry equal to the selection
SelectedIndex(es, sel) ==
    IF IsSome(sel) /\ \E k \in 1..Len(es) : EntryEq(es[k], Unwrap(sel))
    THEN Some((CHOOSE k \in 1..Len(es) :
                  /\ EntryEq(es[k], Unwrap(sel))
                  /\ \A j \in 1..(k - 1) : ~EntryEq(es[j], Unwrap(sel))) - 1)
    ELSE None

-----------------------------------------------------------------------------
(* Rendering: App::render_connection_table (ui.rs) *)

\* usize arithmetic.  The modulus of the model is 2^30, not 2^64: every
\* operand of the model is far below either, so the same operations
\* overflow and the wrapped results agree.
UsizeModulus == 2^30
Overflows(x) == x < 0 \/ x >= UsizeModulus
Wrap(x) == x % UsizeModulus

\* usize::saturating_sub
SaturatingSub(a, b) == IF a >= b THEN a - b ELSE 0

\* lines 118-125: the scroll adjustment.  [scroll, panic]: the new offset, or
\* panic when an overflow is hit with overflow checks on
ScrollAdjust(scroll, index, h, checks) ==
    IF ~IsSome(index) THEN [scroll |-> scroll, panic |-> FALSE]
    ELSE IF scroll > Unwrap(index) THEN [scroll |-> Unwrap(index), panic |-> FALSE]
    ELSE IF checks /\ Overflows(h - 1) THEN [scroll |-> scroll, panic |-> TRUE]
    ELSE IF checks /\ Overflows(scroll + Wrap(h - 1)) THEN [scroll |-> scroll, panic |-> TRUE]
    ELSE IF Wrap(scroll + Wrap(h - 1)) <= Unwrap(index)
         THEN IF checks /\ (Overflows(Unwrap(index) - Wrap(h - 1))
                            \/ Overflows(Wrap(Unwrap(index) - Wrap(h - 1)) + 1))
              THEN [scroll |-> scroll, panic |-> TRUE]
              ELSE [scroll |-> Wrap(Wrap(Unwrap(index) - Wrap(h - 1)) + 1), panic |-> FALSE]
         ELSE [scroll |-> scroll, panic |-> FALSE]

\* lines 126-127: &rows[scroll .. (scroll + h).min(rows.len())]; [start, end, panic]
RowsToShow(scroll, h, n, checks) ==
    LET end == IF Wrap(scroll + h) < n THEN Wrap(scroll + h) ELSE n
    IN [start |-> scroll, end |-> end,
        panic |-> (checks /\ Overflows(scroll + h)) \/ scroll > end]

\* what one pass of render_connection_table leaves behind
RenderConnectionTable(area_height, es, sel, scroll, checks) ==
    LET h == SaturatingSub(area_height, 2)
        adj == ScrollAdjust(scroll, SelectedIndex(es, sel), h, checks)
        rows == RowsToShow(adj.scroll, h, Len(es), checks)
    IN [visible_table_height |-> h,
        scroll |-> adj.scroll,
        start |-> rows.start,
        end |-> rows.end,
        panic |-> adj.panic \/ rows.panic]

-----------------------------------------------------------------------------
(* The state machine: App::default and the loop of App::run *)

Unlimited == 0 - 1

\* App::default()
Default ==
    /\ entries = <<>>
    /\ selected = None
    /\ paused = FALSE
    /\ sort_column = "LocalPort"
    /\ sort_order = "Asc"
    /\ ip_version_filter = "Ipv4AndIpv6"
    /\ protocol_filter = "TcpAndUdp"
    /\ resolve_address_names = FALSE
    /\ dns_cache = <<>>
    /\ scroll_connection_table = 0
    /\ visible_table_height = 0
    /\ overflow_checks \in BOOLEAN
    /\ lookups = [ip \in IpAddrs |-> 0]
    /\ prior_entries = <<>>
    /\ refresh = None

Init ==
    /\ Default
    /\ pc = "draw"
    /\ budget = MaxSteps

\* variant: a render pass that drops the selection
DrawDroppingSelection(area_height) ==
    /\ pc = "draw"
    /\ LET r == RenderConnectionTable(area_height, entries, selected,
                                      scroll_connection_table, overflow_checks)
       IN /\ visible_table_height' = r.visible_table_height
          /\ scroll_connection_table' = r.scroll
          /\ pc' = IF r.panic THEN "panicked" ELSE "event"
    /\ selected' = None
    /\ UNCHANGED <<entries, paused, sort_column, sort_order, ip_version_filter,
                   protocol_filter, resolve_address_names, dns_cache, overflow_checks,
                   lookups, prior_entries, budget, refresh>>

\* variant: a render pass that can also run inside a refresh
DrawInsideRefresh(area_height) ==
    /\ pc \in {"draw", "collect", "built", "sorted"}
    /\ LET r == RenderConnectionTable(area_height, entries, selected,
                                      scroll_connection_table, overflow_checks)
       IN /\ visible_table_height' = r.visible_table_height
          /\ scroll_connection_table' = r.scroll
          /\ pc' = IF r.panic THEN "panicked" ELSE "event"
    /\ UNCHANGED <<entries, selected, paused, sort_column, sort_order, ip_version_filter,
                   protocol_filter, resolve_address_names, dns_cache, overflow_checks,
                   lookups, prior_entries, budget, refresh>>

\* terminal.draw(|frame| frame.render_widget(&self, frame.area()))
Draw(area_height) ==
    /\ pc = "draw"
    /\ LET r == RenderConnectionTable(area_height, entries, selected,
                                      scroll_connection_table, overflow_checks)
       IN /\ visible_table_height' = r.visible_table_height
          /\ scroll_connection_table' = r.scroll
          /\ pc' = IF r.panic THEN "panicked" ELSE "event"
    /\ UNCHANGED <<entries, selected, paused, sort_column, sort_order, ip_version_filter,
                   protocol_filter, resolve_address_names, dns_cache, overflow_checks,
                   lookups, prior_entries, budget, refresh>>

\* self.events.next().await? returned an event: common to every handler
Handling ==
    /\ pc = "event"
    /\ budget # 0
    /\ pc' = "draw"
    /\ budget' = IF budget > 0 THEN budget - 1 ELSE budget
    /\ UNCHANGED <<scroll_connection_table, visible_table_height, overflow_checks, refresh>>

\* variant: a tick that refreshes whether paused or not
RefreshIgnoringPause(source, procs, resolver) ==
    /\ Handling
    /\ LET u == UpdateConnectionEntries(source, procs, resolver, protocol_filter,
                    ip_version_filter, resolve_address_names, sort_column,
                    sort_order, dns_cache, lookups)
       IN /\ entries' = u.entries
          /\ dns_cache' = u.cache
          /\ lookups' = u.calls
    /\ UNCHANGED <<selected, paused, sort_column, sort_order, ip_version_filter,
                   protocol_filter, resolve_address_names>>

\* variant: a refresh that drops the selection when the source fails
RefreshClearingSelection(source, procs, resolver) ==
    /\ Handling
    /\ ~paused
    /\ LET u == UpdateConnectionEntries(source, procs, resolver, protocol_filter,
                    ip_version_filter, resolve_address_names, sort_column,
                    sort_order, dns_cache, lookups)
       IN /\ entries' = u.entries
          /\ dns_cache' = u.cache
          /\ lookups' = u.calls
    /\ selected' = IF IsSome(source) THEN selected ELSE None
    /\ UNCHANGED <<paused, sort_column, sort_order, ip_version_filter,
                   protocol_filter, resolve_address_names>>

\* Event::Tick => self.tick(): the refresh of an unpaused App
Refresh(source, procs, resolver) ==
    /\ Handling
    /\ ~paused
    /\ LET u == UpdateConnectionEntries(source, procs, resolver, protocol_filter,
                    ip_version_filter, resolve_address_names, sort_column,
                    sort_order, dns_cache, lookups)
       IN /\ entries' = u.entries
          /\ dns_cache' = u.cache
          /\ lookups' = u.calls
    /\ UNCHANGED <<selected, paused, sort_column, sort_order, ip_version_filter,
                   protocol_filter, resolve_address_names>>

Tick(source, procs, resolver) ==
    /\ Refresh(source, procs, resolver)
    /\ UNCHANGED prior_entries

\* the same, with the history of the replaced list kept (SpecNav)
TickRecorded(source, procs, resolver) ==
    /\ Refresh(source, procs, resolver)
    /\ prior_entries' = entries

\* variant: a tick that does not look at the pause flag and finds the source empty
TickPausedRefreshing ==
    /\ Handling
    /\ paused
    /\ entries' = <<>>
    /\ UNCHANGED <<selected, paused, sort_column, sort_order, ip_version_filter,
                   protocol_filter, resolve_address_names, dns_cache, lookups, prior_entries>>

\* Event::Tick => self.tick(), while paused
TickPaused ==
    /\ Handling
    /\ paused
    /\ UNCHANGED <<entries, selected, paused, sort_column, sort_order, ip_version_filter,
                   protocol_filter, resolve_address_names, dns_cache, lookups, prior_entries>>

\* AppEvent::Pause => self.pause()
Pause ==
    /\ Handling
    /\ paused' = ~paused
    /\ UNCHANGED <<entries, selected, sort_column, sort_order, ip_version_filter,
                   protocol_filter, resolve_address_names, dns_cache, lookups, prior_entries>>

\* AppEvent::ScrollUpSelection => self.scroll_up_selection()
ScrollUpSelection ==
    /\ Handling
    /\ selected' = ScrollUpSelected(entries, selected)
    /\ UNCHANGED <<entries, paused, sort_column, sort_order, ip_version_filter,
                   protocol_filter, resolve_address_names, dns_cache, lookups, prior_entries>>

\* AppEvent::ScrollDownSelection => self.scroll_down_selection()
ScrollDownSelection ==
    /\ Handling
    /\ selected' = ScrollDownSelected(entries, selected)
    /\ UNCHANGED <<entries, paused, sort_column, sort_order, ip_version_filter,
                   protocol_filter, resolve_address_names, dns_cache, lookups, prior_entries>>

\* AppEvent::ScrollUpPage / ScrollDownPage / ShowHelp: handlers with empty bodies
EmptyHandler ==
    /\ Handling
    /\ UNCHANGED <<entries, selected, paused, sort_column, sort_order, ip_version_filter,
                   protocol_filter, resolve_address_names, dns_cache, lookups, prior_entries>>

\* App::toggle_ip_version: the new filter
NextIpVersionFilter(f) ==
    CASE f = "Ipv4Only" -> "Ipv6Only"
      [] f = "Ipv6Only" -> "Ipv4AndIpv6"
      [] f = "Ipv4AndIpv6" -> "Ipv4Only"

\* AppEvent::ToggleIpVersion => self.toggle_ip_version()
ToggleIpVersion ==
    /\ Handling
    /\ ip_version_filter' = NextIpVersionFilter(ip_version_filter)
    /\ UNCHANGED <<entries, selected, paused, sort_column, sort_order,
                   protocol_filter, resolve_address_names, dns_cache, lookups, prior_entries>>

\* variant: toggle_proto_version cycling the other way round
NextProtocolFilterBackwards(f) ==
    CASE f = "TcpOnly" -> "TcpAndUdp"
      [] f = "UdpOnly" -> "TcpOnly"
      [] f = "TcpAndUdp" -> "UdpOnly"

\* App::toggle_proto_version: the new filter
NextProtocolFilter(f) ==
    CASE f = "TcpOnly" -> "UdpOnly"
      [] f = "UdpOnly" -> "TcpAndUdp"
      [] f = "TcpAndUdp" -> "TcpOnly"

\* variant: toggle_proto_version that drops at once the rows the new filter rejects
ToggleProtoVersionFiltering ==
    /\ Handling
    /\ protocol_filter' = NextProtocolFilter(protocol_filter)
    /\ entries' = SelectSeq(entries,
                     LAMBDA en : \/ protocol_filter' = "TcpAndUdp"
                                \/ (protocol_filter' = "TcpOnly" /\ en.proto = StrTCP)
                                \/ (protocol_filter' = "UdpOnly" /\ en.proto = StrUDP))
    /\ UNCHANGED <<selected, paused, sort_column, sort_order,
                   ip_version_filter, resolve_address_names, dns_cache, lookups, prior_entries>>

\* AppEvent::ToggleProtoVersion => self.toggle_proto_version()
ToggleProtoVersion ==
    /\ Handling
    /\ protocol_filter' = NextProtocolFilter(protocol_filter)
    /\ UNCHANGED <<entries, selected, paused, sort_column, sort_order,
                   ip_version_filter, resolve_address_names, dns_cache, lookups, prior_entries>>

\* AppEvent::ToggleDnsResolution => self.toggle_dns_resolution()
ToggleDnsResolution ==
    /\ Handling
    /\ resolve_address_names' = ~resolve_address_names
    /\ UNCHANGED <<entries, selected, paused, sort_column, sort_order,
                   ip_version_filter, protocol_filter, dns_cache, lookups, prior_entries>>

\* App::sort_by_column: the new [column, order]
SortByColumnState(column, order, c) ==
    IF column = c
    THEN [column |-> column, order |-> IF order = "Asc" THEN "Desc" ELSE "Asc"]
    ELSE [column |-> c, order |-> order]

\* variant: sort_by_column that de-duplicates as the refresh does
SortByColumnWithDedup(c) ==
    /\ Handling
    /\ LET st == SortByColumnState(sort_column, sort_order, c)
       IN /\ sort_column' = st.column
          /\ sort_order' = st.order
          /\ entries' = Dedup(SortEntries(entries, st.column, st.order))
    /\ UNCHANGED <<selected, paused, ip_version_filter, protocol_filter,
                   resolve_address_names, dns_cache, lookups, prior_entries>>

\* AppEvent::Sort(sort_column) => self.sort_by_column(sort_column)
SortByColumn(c) ==
    /\ Handling
    /\ LET st == SortByColumnState(sort_column, sort_order, c)
       IN /\ sort_column' = st.column
          /\ sort_order' = st.order
          /\ entries' = SortEntries(entries, st.column, st.order)
    /\ UNCHANGED <<selected, paused, ip_version_filter, protocol_filter,
                   resolve_address_names, dns_cache, lookups, prior_entries>>

Next ==
    \/ \E area_height \in 0..MaxAreaHeight : Draw(area_height)
    \/ \E source \in SourceResults, procs \in ProcTables :
          \E resolver \in Resolvers(resolve_address_names, dns_cache) :
             Tick(source, procs, resolver)
    \/ TickPaused
    \/ Pause
    \/ ScrollUpSelection
    \/ ScrollDownSelection
    \/ EmptyHandler
    \/ ToggleIpVersion
    \/ ToggleProtoVersion
    \/ ToggleDnsResolution
    \/ \E c \in SortColumns : SortByColumn(c)

Spec == Init /\ [][Next]_vars

-----------------------------------------------------------------------------
(* SpecSort: sort_entries on the lists a refresh builds.  The run starts   *)
(* inside update_connection_entries, with the `for conn in sockets` loop   *)
(* done (line 377) under any sort column and order, and follows lines 378  *)
(* and 379.                                                                *)

\* the list the loop of update_connection_entries has pushed
BuiltEntries(source, procs) ==
    CollectConnections(source, [entries |-> <<>>, cache |-> <<>>, calls |-> <<>>],
                       "TcpAndUdp", "Ipv4AndIpv6", FALSE, procs, <<>>).entries

InitSort ==
    /\ \E source \in SeqsUpTo(Sockets, MaxSortLen), procs \in ProcTables :
          entries = BuiltEntries(source, procs)
    /\ sort_column \in SortColumns
    /\ sort_order \in SortOrders
    /\ selected = None
    /\ paused = FALSE
    /\ ip_version_filter = "Ipv4AndIpv6"
    /\ protocol_filter = "TcpAndUdp"
    /\ resolve_address_names = FALSE
    /\ dns_cache = <<>>
    /\ scroll_connection_table = 0
    /\ visible_table_height = 0
    /\ overflow_checks = TRUE
    /\ lookups = [ip \in IpAddrs |-> 0]
    /\ prior_entries = <<>>
    /\ refresh = None
    /\ pc = "built"
    /\ budget = Unlimited

\* line 378: self.sort_entries()
SortBuilt ==
    /\ pc = "built"
    /\ entries' = SortEntries(entries, sort_column, sort_order)
    /\ pc' = "sorted"
    /\ UNCHANGED <<selected, paused, sort_column, sort_order, ip_version_filter,
                   protocol_filter, resolve_address_names, dns_cache,
                   scroll_connection_table, visible_table_height, overflow_checks,
                   lookups, prior_entries, budget, refresh>>

\* line 379: self.entries.dedup()
DedupSorted ==
    /\ pc = "sorted"
    /\ entries' = Dedup(entries)
    /\ pc' = "draw"
    /\ UNCHANGED <<selected, paused, sort_column, sort_order, ip_version_filter,
                   protocol_filter, resolve_address_names, dns_cache,
                   scroll_connection_table, visible_table_height, overflow_checks,
                   lookups, prior_entries, budget, refresh>>

NextSort ==
    \/ SortBuilt
    \/ DedupSorted

SpecSort == InitSort /\ [][NextSort]_vars

-----------------------------------------------------------------------------
(* SpecNav: the loop of App::run when the only events are ticks and the   *)
(* Up / Down keys.  The Raw State Source reports each socket at most once  *)
(* per refresh, the process table does not change, resolution stays off.   *)

NavSockets == {SockT4, SockU4, SockT6}
NavSources ==
    {None} \cup {Some(q) : q \in {r \in SeqsUpTo(NavSockets, MaxNavSockets) :
                                    \A i, j \in 1..Len(r) : i # j => r[i] # r[j]}}
NavProcs == [pid \in {0, 10, 20} |->
                IF pid = 10 THEN Some(ProcSshd) ELSE IF pid = 20 THEN Some(ProcNtpd) ELSE None]

InitNav ==
    /\ Default
    /\ pc = "draw"
    /\ budget = Unlimited

NextNav ==
    \/ \E area_height \in 0..MaxAreaHeight : Draw(area_height)
    \/ \E source \in NavSources :
          \E resolver \in Resolvers(resolve_address_names, dns_cache) :
             TickRecorded(source, NavProcs, resolver)
    \/ ScrollUpSelection
    \/ ScrollDownSelection

SpecNav == InitNav /\ [][NextNav]_vars

-----------------------------------------------------------------------------
(* SpecFilter: the loop of App::run when the only events are ticks and the *)
(* two filter keys.                                                        *)

FilterSources == {None} \cup {Some(q) : q \in SeqsUpTo(Sockets, MaxFilterSockets)}

InitFilter ==
    /\ Default
    /\ pc = "draw"
    /\ budget = Unlimited

NextFilter ==
    \/ Draw(MaxAreaHeight)
    \/ \E source \in FilterSources :
          \E resolver \in Resolvers(resolve_address_names, dns_cache) :
             Tick(source, NavProcs, resolver)
    \/ ToggleIpVersion
    \/ ToggleProtoVersion

SpecFilter == InitFilter /\ [][NextFilter]_vars

-----------------------------------------------------------------------------
(* SpecDns: the loop of App::run when the only events are ticks and the    *)
(* DNS key.                                                                *)

DnsSources == {None} \cup {Some(q) : q \in SeqsUpTo(Sockets, MaxDnsSockets)}

InitDns ==
    /\ Default
    /\ pc = "draw"
    /\ budget = Unlimited

NextDns ==
    \/ Draw(MaxAreaHeight)
    \/ \E source \in DnsSources :
          \E resolver \in Resolvers(resolve_address_names, dns_cache) :
             Tick(source, NavProcs, resolver)
    \/ ToggleDnsResolution

SpecDns == InitDns /\ [][NextDns]_vars

-----------------------------------------------------------------------------
(* SpecCache: the loop of App::run when the events are ticks, the pause    *)
(* key, the DNS key and the two filter keys.                               *)

CacheSources == {None} \cup {Some(q) : q \in SeqsUpTo(Sockets, MaxCacheSockets)}

InitCache ==
    /\ Default
    /\ pc = "draw"
    /\ budget = Unlimited

NextCache ==
    \/ Draw(MaxAreaHeight)
    \/ \E source \in CacheSources :
          \E resolver \in Resolvers(resolve_address_names, dns_cache) :
             Tick(source, NavProcs, resolver)
    \/ TickPaused
    \/ Pause
    \/ ToggleDnsResolution
    \/ ToggleIpVersion
    \/ ToggleProtoVersion

SpecCache == InitCache /\ [][NextCache]_vars

-----------------------------------------------------------------------------
(* SpecPause: the loop of App::run when the events are ticks, the pause    *)
(* key, Up/Down and the sort keys.                                         *)

InitPause ==
    /\ Default
    /\ pc = "draw"
    /\ budget = Unlimited

NextPause ==
    \/ Draw(MaxAreaHeight)
    \/ \E source \in NavSources :
          \E resolver \in Resolvers(resolve_address_names, dns_cache) :
             Tick(source, NavProcs, resolver)
    \/ TickPaused
    \/ Pause
    \/ ScrollUpSelection
    \/ ScrollDownSelection
    \/ \E c \in SortColumns : SortByColumn(c)

SpecPause == InitPause /\ [][NextPause]_vars

-----------------------------------------------------------------------------
(* SpecFind: the loop of App::run when the events are ticks whose socket   *)
(* list may name a socket more than once, Up/Down and the sort keys.       *)

FindSources == {None} \cup {Some(q) : q \in SeqsUpTo(NavSockets, MaxFindSockets)}

InitFind ==
    /\ Default
    /\ pc = "draw"
    /\ budget = Unlimited

NextFind ==
    \/ Draw(MaxAreaHeight)
    \/ \E source \in FindSources :
          \E resolver \in Resolvers(resolve_address_names, dns_cache) :
             Tick(source, NavProcs, resolver)
    \/ ScrollUpSelection
    \/ ScrollDownSelection
    \/ \E c \in SortColumns : SortByColumn(c)

SpecFind == InitFind /\ [][NextFind]_vars

-----------------------------------------------------------------------------
(* SpecIdentity: the loop of App::run when the events are ticks, between   *)
(* which the process of pid 20 may come and go, and Up/Down.               *)

IdSources ==
    {None} \cup {Some(q) : q \in {r \in SeqsUpTo(NavSockets, MaxIdSockets) :
                                    \A i, j \in 1..Len(r) : i # j => r[i] # r[j]}}

IdProcTables ==
    { NavProcs,
      [pid \in {0, 10, 20} |-> IF pid = 10 THEN Some(ProcSshd) ELSE None] }

InitIdentity ==
    /\ Default
    /\ pc = "draw"
    /\ budget = Unlimited

NextIdentity ==
    \/ Draw(MaxAreaHeight)
    \/ \E source \in IdSources, procs \in IdProcTables :
          \E resolver \in Resolvers(resolve_address_names, dns_cache) :
             TickRecorded(source, procs, resolver)
    \/ ScrollUpSelection
    \/ ScrollDownSelection

SpecIdentity == InitIdentity /\ [][NextIdentity]_vars

-----------------------------------------------------------------------------
(* SpecScenario: the loop of App::run on a host with the two sockets       *)
(* TCP 10.0.0.1:22 -> 10.0.0.2:5 (pid 10) and UDP 10.0.0.1:53 (pid 20),    *)
(* when the events are ticks, the protocol key and two of the sort keys.   *)

ScenarioSockets == {SockT4, SockU4}
ScenarioSources ==
    {None} \cup {Some(q) : q \in {<<>>, <<SockT4>>, <<SockU4>>,
                                  <<SockT4, SockU4>>, <<SockU4, SockT4>>}}
ScenarioSortColumns == {"Proto", "LocalPort"}

InitScenario ==
    /\ Default
    /\ pc = "draw"
    /\ budget = Unlimited

NextScenario ==
    \/ Draw(MaxAreaHeight)
    \/ \E source \in ScenarioSources :
          \E resolver \in Resolvers(resolve_address_names, dns_cache) :
             Tick(source, NavProcs, resolver)
    \/ ToggleProtoVersion
    \/ \E c \in ScenarioSortColumns : SortByColumn(c)

SpecScenario == InitScenario /\ [][NextScenario]_vars

-----------------------------------------------------------------------------
(* SpecSteps: the loop of App::run with update_connection_entries followed *)
(* statement by statement: the list is emptied, the records are pushed one *)
(* by one, the list is sorted, then de-duplicated.                         *)

StepSources == {None} \cup {Some(q) : q \in SeqsUpTo(NavSockets, MaxStepSockets)}

\* Event::Tick => self.tick() up to line 332: sys and the socket list are
\* taken, self.entries = vec![]
BeginRefresh(source, procs) ==
    /\ pc = "event"
    /\ budget # 0
    /\ ~paused
    /\ entries' = <<>>
    /\ refresh' = Some([source |-> source, next |-> 1, procs |-> procs])
    /\ pc' = "collect"
    /\ budget' = IF budget > 0 THEN budget - 1 ELSE budget
    /\ UNCHANGED <<selected, paused, sort_column, sort_order, ip_version_filter,
                   protocol_filter, resolve_address_names, dns_cache,
                   scroll_connection_table, visible_table_height, overflow_checks,
                   lookups, prior_entries>>

\* the records the loop at line 333 has not visited yet
RecordsLeft(r) ==
    IF IsSome(r.source) THEN Len(Unwrap(r.source)) - (r.next - 1) ELSE 0

\* lines 333-376: one iteration of `for conn in sockets`
PushNext(resolver) ==
    /\ pc = "collect"
    /\ RecordsLeft(Unwrap(refresh)) > 0
    /\ LET r == Unwrap(refresh)
           acc == PushConnection(Unwrap(r.source)[r.next],
                      [entries |-> entries, cache |-> dns_cache, calls |-> lookups],
                      protocol_filter, ip_version_filter, resolve_address_names,
                      r.procs, resolver)
       IN /\ entries' = acc.entries
          /\ dns_cache' = acc.cache
          /\ lookups' = acc.calls
          /\ refresh' = Some([r EXCEPT !.next = @ + 1])
    /\ UNCHANGED <<selected, paused, sort_column, sort_order, ip_version_filter,
                   protocol_filter, resolve_address_names, scroll_connection_table,
                   visible_table_height, pc, overflow_checks, prior_entries, budget>>

\* the loop is left (or, on Err, never entered)
EndCollect ==
    /\ pc = "collect"
    /\ RecordsLeft(Unwrap(refresh)) = 0
    /\ pc' = "built"
    /\ UNCHANGED <<entries, selected, paused, sort_column, sort_order, ip_version_filter,
                   protocol_filter, resolve_address_names, dns_cache,
                   scroll_connection_table, visible_table_height, overflow_checks,
                   lookups, prior_entries, budget, refresh>>

InitSteps ==
    /\ Default
    /\ pc = "draw"
    /\ budget = Unlimited

NextSteps ==
    \/ Draw(MaxAreaHeight)
    \/ \E source \in StepSources : BeginRefresh(source, NavProcs)
    \/ \E resolver \in Resolvers(resolve_address_names, dns_cache) : PushNext(resolver)
    \/ EndCollect
    \/ SortBuilt
    \/ DedupSorted
    \/ ToggleProtoVersion
    \/ \E c \in ScenarioSortColumns : SortByColumn(c)

SpecSteps == InitSteps /\ [][NextSteps]_vars

-----------------------------------------------------------------------------
(* SpecResolve: the loop of App::run when the events are ticks, the DNS    *)
(* key and the two filter keys.                                            *)

\* the order in which the Raw State Source lists the sockets it returns
SocketOrder == <<SockT4, SockU4, SockT6, SockU6>>

SocketRank(sock) == CHOOSE i \in 1..Len(SocketOrder) : SocketOrder[i] = sock

\* a failed read, or any selection of at most MaxResolveSockets sockets
ResolveSources ==
    {None} \cup {Some(q) : q \in {r \in SeqsUpTo(Sockets, MaxResolveSockets) :
                      \A i, j \in 1..Len(r) : i < j => SocketRank(r[i]) < SocketRank(r[j])}}

InitResolve ==
    /\ Default
    /\ pc = "draw"
    /\ budget = Unlimited

NextResolve ==
    \/ Draw(MaxAreaHeight)
    \/ \E source \in ResolveSources :
          \E resolver \in Resolvers(resolve_address_names, dns_cache) :
             Tick(source, NavProcs, resolver)
    \/ ToggleDnsResolution
    \/ ToggleIpVersion
    \/ ToggleProtoVersion

SpecResolve == InitResolve /\ [][NextResolve]_vars

-----------------------------------------------------------------------------
(* SpecOrder: the loop of App::run with every key that has a handler and   *)
(* ticks that read a TCP and a UDP socket in either order, while every     *)
(* reverse lookup succeeds.                                                *)

OrderSockets == {SockT4, SockU6}

OrderSources ==
    {None} \cup {Some(q) : q \in {r \in SeqsUpTo(OrderSockets, MaxOrderSockets) :
                                    \A i, j \in 1..Len(r) : i # j => r[i] # r[j]}}

\* the resolver in which every lookup finds a name
OrderResolvers(resolve, cache) ==
    {r \in Resolvers(resolve, cache) : \A ip \in DOMAIN r : r[ip]}

InitOrder ==
    /\ Default
    /\ pc = "draw"
    /\ budget = Unlimited

NextOrder ==
    \/ Draw(MaxAreaHeight)
    \/ \E source \in OrderSources :
          \E resolver \in OrderResolvers(resolve_address_names, dns_cache) :
             Tick(source, NavProcs, resolver)
    \/ TickPaused
    \/ Pause
    \/ ScrollUpSelection
    \/ ScrollDownSelection
    \/ ToggleIpVersion
    \/ ToggleProtoVersion
    \/ ToggleDnsResolution
    \/ \E c \in SortColumns : SortByColumn(c)

SpecOrder == InitOrder /\ [][NextOrder]_vars

-----------------------------------------------------------------------------
(* Vocabulary of the properties *)

\* the reverse of a sequence
RevSeq(q) == [i \in 1..Len(q) |-> q[Len(q) + 1 - i]]

\* the value of an entry in a column
ColumnValue(e, column) ==
    CASE column = "Proto" -> e.proto
      [] column = "LocalIP" -> e.local_ip
      [] column = "LocalPort" -> e.local_port
      [] column = "RemoteIP" -> e.remote_ip
      [] column = "RemotePort" -> e.remote_port
      [] column = "State" -> e.state
      [] column = "PID" -> e.pid
      [] column = "Process" -> e.process

\* the columns whose comparator treats an empty string / a zero port apart
StringPushColumns == {"RemoteIP", "State", "Process"}
PushColumns == StringPushColumns \cup {"RemotePort"}

\* the empty value of a push column: "" or port 0
IsBlank(e, column) ==
    IF column = "RemotePort" THEN e.remote_port = 0 ELSE ColumnValue(e, column) = <<>>

\* lexicographic order on strings, stated without StrCmp: a is a prefix of
\* b, or at the first position where they differ a has the smaller byte
LexLeq(a, b) ==
    \E k \in 0..Len(a) :
       /\ k <= Len(b)
       /\ \A i \in 1..k : a[i] = b[i]
       /\ \/ k = Len(a)
          \/ k < Len(b) /\ a[k + 1] < b[k + 1]

\* v does not come after w in the increasing order of the column
ValueLeq(v, w, column) ==
    IF column \in {"LocalPort", "RemotePort", "PID"} THEN v <= w ELSE LexLeq(v, w)

\* every blank entry of es comes after every non-blank one
BlanksLast(es, column) ==
    \A i, j \in 1..Len(es) :
       (IsBlank(es[i], column) /\ ~IsBlank(es[j], column)) => j < i

\* every blank entry of es comes before every non-blank one
BlanksFirst(es, column) ==
    \A i, j \in 1..Len(es) :
       (IsBlank(es[i], column) /\ ~IsBlank(es[j], column)) => i < j

\* the non-blank entries of es are in increasing / decreasing order
NonBlanksIncreasing(es, column) ==
    \A i, j \in 1..Len(es) :
       (i < j /\ ~IsBlank(es[i], column) /\ ~IsBlank(es[j], column))
          => ValueLeq(ColumnValue(es[i], column), ColumnValue(es[j], column), column)
NonBlanksDecreasing(es, column) ==
    \A i, j \in 1..Len(es) :
       (i < j /\ ~IsBlank(es[i], column) /\ ~IsBlank(es[j], column))
          => ValueLeq(ColumnValue(es[j], column), ColumnValue(es[i], column), column)

\* the values of es in the column are pairwise different
ValuesDistinct(es, column) ==
    \A i, j \in 1..Len(es) :
       i # j => ColumnValue(es[i], column) # ColumnValue(es[j], column)

\* no entry of es is blank in a push column
NoBlank(es, column) ==
    column \in PushColumns => \A i \in 1..Len(es) : ~IsBlank(es[i], column)

-----------------------------------------------------------------------------
(* C2 *)

\* C2 as stated: for every column and every list the refresh builds, sorting
\* Descending gives the reverse of sorting the same list Ascending.
C2_DescIsReverseOfAsc ==
    pc = "built" =>
       SortEntries(entries, sort_column, "Desc")
          = RevSeq(SortEntries(entries, sort_column, "Asc"))

\* C2 amended: the same, for lists whose values in the sort column are
\* pairwise different and, in RemoteIP, RemotePort, State and Process, not
\* empty / zero (lists of at most one entry included).
C2_DescIsReverseOfAsc_DistinctNonBlank ==
    (pc = "built"
        /\ (Len(entries) <= 1
            \/ (ValuesDistinct(entries, sort_column) /\ NoBlank(entries, sort_column))))
    => SortEntries(entries, sort_column, "Desc")
          = RevSeq(SortEntries(entries, sort_column, "Asc"))

C2_Witness ==
    /\ pc = "built"
    /\ sort_column = "RemoteIP"
    /\ Len(entries) = 2
    /\ ValuesDistinct(entries, sort_column)
    /\ NoBlank(entries, sort_column)
    /\ SortEntries(entries, sort_column, "Asc") # entries

-----------------------------------------------------------------------------
(* C3 *)

\* C3 as stated: sorted Descending by RemoteIP, State, Process or RemotePort,
\* every empty / zero value comes before all other values.
C3_DescBlanksFirst ==
    (pc = "sorted" /\ sort_order = "Desc" /\ sort_column \in PushColumns)
    => BlanksFirst(entries, sort_column)

\* C3 amended: sorted Descending by RemoteIP, State, Process or RemotePort,
\* every empty / zero value comes after all other values, which are in
\* decreasing order (values "", "b", "", "a" sort to "b", "a", "", "").
C3_DescBlanksLast ==
    (pc = "sorted" /\ sort_order = "Desc" /\ sort_column \in PushColumns)
    => /\ BlanksLast(entries, sort_column)
       /\ NonBlanksDecreasing(entries, sort_column)

C3_Witness ==
    /\ pc = "sorted"
    /\ sort_order = "Desc"
    /\ sort_column = "Process"
    /\ Len(entries) = 4
    /\ entries[1].process = ProcSshd
    /\ entries[2].process = ProcNtpd
    /\ entries[3].process = <<>>
    /\ entries[4].process = <<>>

-----------------------------------------------------------------------------
(* C4 *)

\* C4: sorted Ascending by RemoteIP, State, Process or RemotePort, every
\* empty / zero value comes after all other values, which are in increasing
\* order (values "", "b", "", "a" sort to "a", "b", "", "").
C4_AscBlanksLast ==
    (pc = "sorted" /\ sort_order = "Asc" /\ sort_column \in PushColumns)
    => /\ BlanksLast(entries, sort_column)
       /\ NonBlanksIncreasing(entries, sort_column)

C4_Witness ==
    /\ pc = "sorted"
    /\ sort_order = "Asc"
    /\ sort_column = "Process"
    /\ Len(entries) = 4
    /\ entries[1].process = ProcNtpd
    /\ entries[2].process = ProcSshd
    /\ entries[3].process = <<>>
    /\ entries[4].process = <<>>

-----------------------------------------------------------------------------
(* C1 *)

\* the refresh before this state found [A, B, C] with B selected and left [A, C]
SelectedVanishedBetween ==
    /\ Len(prior_entries) = 3
    /\ IsSome(selected)
    /\ EntryEq(Unwrap(selected), prior_entries[2])
    /\ ~EntryEq(prior_entries[1], prior_entries[2])
    /\ ~EntryEq(prior_entries[3], prior_entries[2])
    /\ entries = <<prior_entries[1], prior_entries[3]>>

\* C1: with [A, B, C] and B selected, after a refresh to [A, C] SelectDown
\* selects C, B's former successor, and SelectUp selects A, its former
\* predecessor.
C1_FailoverToFormerNeighbour ==
    [][SelectedVanishedBetween =>
          /\ ScrollDownSelection => selected' = Some(prior_entries[3])
          /\ ScrollUpSelection => selected' = Some(prior_entries[1])]_vars

-----------------------------------------------------------------------------
(* C5 *)

\* C5: SortByColumn(c) on the active column flips the order and keeps the
\* column; on another column it sets the column to c, resets the order to
\* Asc and re-sorts the entries.
C5_SortByColumnResetsToAsc ==
    [][\A c \in SortColumns :
          SortByColumn(c) =>
             IF c = sort_column
             THEN /\ sort_column' = sort_column
                  /\ sort_order' # sort_order
             ELSE /\ sort_column' = c
                  /\ sort_order' = "Asc"
                  /\ entries' = SortEntries(entries, c, "Asc")]_vars

-----------------------------------------------------------------------------
(* C6, C7, C8: the state a completed render pass leaves (pc = "event") *)

\* a render pass has completed with a selected row in the list
RenderedWithSelection ==
    /\ pc = "event"
    /\ IsSome(SelectedIndex(entries, selected))

\* max(0, n - h)
MaxScroll(n, h) == IF n > h THEN n - h ELSE 0

\* C6: after a render pass the selected row is inside the visible window,
\* scroll <= i < scroll + h (stated for h >= 1: no row is inside an empty
\* window).
C6_SelectedRowVisible ==
    (RenderedWithSelection /\ visible_table_height >= 1)
    => LET i == Unwrap(SelectedIndex(entries, selected))
       IN /\ scroll_connection_table <= i
          /\ i < scroll_connection_table + visible_table_height

\* C7: after a render pass 0 <= scroll <= max(0, n - h) (stated for h >= 2,
\* where the selected row is visible).
C7_ScrollWithinBounds ==
    (RenderedWithSelection /\ visible_table_height >= 2)
    => /\ 0 <= scroll_connection_table
       /\ scroll_connection_table <= MaxScroll(Len(entries), visible_table_height)

\* C8: the render pass never panics: no overflow in the scroll arithmetic,
\* and the visible slice is a valid range of the rows.
C8_RenderNeverPanics ==
    /\ pc # "panicked"
    /\ pc = "event" =>
          LET rows == RowsToShow(scroll_connection_table, visible_table_height,
                                 Len(entries), overflow_checks)
          IN rows.start <= rows.end /\ rows.end <= Len(entries)

\* the record's protocol / the family of its local address is the one the
\* filter asks for
ProtocolMatches(sock, pfilter) ==
    \/ pfilter = "TcpAndUdp"
    \/ pfilter = "TcpOnly" /\ sock.proto = "Tcp"
    \/ pfilter = "UdpOnly" /\ sock.proto = "Udp"

FamilyMatches(sock, ipfilter) ==
    \/ ipfilter = "Ipv4AndIpv6"
    \/ ipfilter = "Ipv4Only" /\ sock.local_addr.family = "V4"
    \/ ipfilter = "Ipv6Only" /\ sock.local_addr.family = "V6"

\* e is the row of socket record sock (addresses shown literally)
IsRowOf(e, sock) ==
    /\ e.proto = (IF sock.proto = "Tcp" THEN StrTCP ELSE StrUDP)
    /\ e.local_ip = IpToString(sock.local_addr)
    /\ e.local_port = sock.local_port

HasRowOf(es, sock) == \E k \in 1..Len(es) : IsRowOf(es[k], sock)

InSource(source, sock) ==
    IsSome(source) /\ \E k \in 1..Len(Unwrap(source)) : Unwrap(source)[k] = sock

\* C9: a socket record is shown iff its protocol matches the protocol filter
\* AND the family of its local address matches the IP-version filter; a
\* refresh lists exactly the records of the source that are shown.
C9_ShownIffBothFiltersMatch ==
    [][ /\ \A sock \in Sockets :
              ShowConnection(sock, protocol_filter', ip_version_filter')
              <=> (ProtocolMatches(sock, protocol_filter')
                   /\ FamilyMatches(sock, ip_version_filter'))
        /\ \A source \in FilterSources :
              Tick(source, NavProcs, [ip \in {} |-> TRUE])
              => \A sock \in Sockets :
                    HasRowOf(entries', sock)
                    <=> (InSource(source, sock)
                         /\ ProtocolMatches(sock, protocol_filter)
                         /\ FamilyMatches(sock, ip_version_filter)) ]_vars

\* a refresh under TcpOnly / Ipv6Only has listed the one record both filters
\* accept
C9_Witness ==
    /\ protocol_filter = "TcpOnly"
    /\ ip_version_filter = "Ipv6Only"
    /\ pc = "draw"
    /\ Len(entries) = 1
    /\ IsRowOf(entries[1], SockT6)

\* the resolution state of the App
DnsState == [cache |-> dns_cache, calls |-> lookups]

\* resolving a cached address returns the cached name and leaves the
\* resolution state alone
CachedIsReturned(st) ==
    \A ip \in DOMAIN st.cache :
       \A resolver \in [IpAddrs \ DOMAIN st.cache -> BOOLEAN] :
          ResolveDns(ip, st, resolver)
             = [name |-> st.cache[ip], cache |-> st.cache, calls |-> st.calls]

\* a failed lookup of an address stores the literal address, and the next
\* resolution of the address returns it without another lookup
FailureIsSticky(st) ==
    \A ip \in IpAddrs \ DOMAIN st.cache :
       \A resolver \in [IpAddrs \ DOMAIN st.cache -> BOOLEAN] :
          ~resolver[ip] =>
             LET r == ResolveDns(ip, st, resolver)
                 again == ResolveDns(ip, [cache |-> r.cache, calls |-> r.calls], resolver)
             IN /\ r.name = IpToString(ip)
                /\ ip \in DOMAIN r.cache
                /\ r.cache[ip] = IpToString(ip)
                /\ r.calls[ip] = st.calls[ip] + 1
                /\ again = [name |-> IpToString(ip), cache |-> r.cache, calls |-> r.calls]

\* C10: the resolver is called at most once per IP address: an address is
\* cached exactly when it has been looked up once, a cached name (the host
\* name, or the literal address after a failed lookup) is never replaced and
\* never looked up again, and every later resolution returns it.
C10_LookupAtMostOncePerIp ==
    [][ /\ \A ip \in IpAddrs :
              /\ lookups'[ip] <= 1
              /\ lookups'[ip] = 1 <=> ip \in DOMAIN dns_cache'
              /\ ip \in DOMAIN dns_cache'
                 => dns_cache'[ip] \in {HostName(ip), IpToString(ip)}
              /\ ip \in DOMAIN dns_cache
                 => /\ ip \in DOMAIN dns_cache'
                    /\ dns_cache'[ip] = dns_cache[ip]
                    /\ lookups'[ip] = lookups[ip]
        /\ CachedIsReturned(DnsState')
        /\ FailureIsSticky(DnsState') ]_vars

\* one refresh has resolved 10.0.0.1 for two rows: the lookup failed, was
\* made once, and both rows show the cached literal address
C10_Witness ==
    /\ resolve_address_names
    /\ Ip4A \in DOMAIN dns_cache
    /\ dns_cache[Ip4A] = IpToString(Ip4A)
    /\ lookups[Ip4A] = 1
    /\ Len(entries) = 2
    /\ IsRowOf(entries[1], SockT4)
    /\ IsRowOf(entries[2], SockU4)

\* C11: dns_cache is write-once and monotonic: a cached key is never removed
\* and its value never changes, whatever the step (tick, paused tick, pause,
\* DNS toggle, filter change, draw).
C11_CacheWriteOnce ==
    [][ \A ip \in DOMAIN dns_cache :
           /\ ip \in DOMAIN dns_cache'
           /\ dns_cache'[ip] = dns_cache[ip] ]_vars

\* the names of 10.0.0.1 and 10.0.0.2 were cached by unpaused ticks with
\* resolution on and Tcp shown; since then the App was paused, resolution
\* was switched off and the protocol filter was moved to UdpOnly
C11_Witness ==
    /\ paused
    /\ ~resolve_address_names
    /\ protocol_filter = "UdpOnly"
    /\ Ip4A \in DOMAIN dns_cache
    /\ dns_cache[Ip4A] = HostName(Ip4A)
    /\ Ip4B \in DOMAIN dns_cache
    /\ dns_cache[Ip4B] = IpToString(Ip4B)
    /\ Ip6Loopback \in DOMAIN dns_cache

\* C12: a tick while paused is a no-op: entries, selection, scroll offset,
\* sort state, filter state and dns_cache stay as they are, and neither the
\* socket source nor the resolver is asked (no lookup is counted).
C12_PausedTickIsNoOp ==
    [][ TickPaused =>
           /\ entries' = entries
           /\ selected' = selected
           /\ scroll_connection_table' = scroll_connection_table
           /\ visible_table_height' = visible_table_height
           /\ sort_column' = sort_column /\ sort_order' = sort_order
           /\ ip_version_filter' = ip_version_filter
           /\ protocol_filter' = protocol_filter
           /\ resolve_address_names' = resolve_address_names
           /\ paused' = paused
           /\ dns_cache' = dns_cache
           /\ lookups' = lookups ]_vars

\* a paused App that holds a two-row snapshot with a selection is about to
\* handle an event, which may be a tick
C12_Witness ==
    /\ paused
    /\ pc = "event"
    /\ Len(entries) = 2
    /\ IsSome(selected)
    /\ sort_order = "Desc"

\* the number of positions of es that hold exactly e
Occurrences(es, e) == Cardinality({k \in 1..Len(es) : es[k] = e})

\* es and fs hold the same entries, each as often (the order may differ)
SameMembers(es, fs) ==
    /\ Len(es) = Len(fs)
    /\ \A k \in 1..Len(es) : Occurrences(es, es[k]) = Occurrences(fs, es[k])

\* e has the empty value of a column that has one
BlankIn(e, column) == column \in PushColumns /\ IsBlank(e, column)

\* es is in the order of the column and direction: empty values last, the
\* others increasing (Asc) or decreasing (Desc)
OrderedBy(es, column, order) ==
    /\ column \in PushColumns => BlanksLast(es, column)
    /\ \A i, j \in 1..Len(es) :
          (i < j /\ ~BlankIn(es[i], column) /\ ~BlankIn(es[j], column))
             => IF order = "Asc"
                THEN ValueLeq(ColumnValue(es[i], column), ColumnValue(es[j], column), column)
                ELSE ValueLeq(ColumnValue(es[j], column), ColumnValue(es[i], column), column)

\* the position of the selection in es, 0 when it is not there
PositionOf(es, sel) ==
    IF IsSome(SelectedIndex(es, sel)) THEN Unwrap(SelectedIndex(es, sel)) + 1 ELSE 0

\* C13: while paused no step (tick or user intent) changes the membership of
\* the snapshot; Up/Down still move the selection to the neighbouring row (or
\* to the first row when nothing is selected), a sort key still re-orders the
\* snapshot; once unpaused, a tick replaces the snapshot by the rows of the
\* source.
C13_PauseSuspendsRefreshOnly ==
    [][ /\ paused => SameMembers(entries, entries')
        /\ (paused /\ ScrollDownSelection /\ entries # <<>>) =>
              LET k == PositionOf(entries, selected)
              IN /\ ~IsSome(selected) => selected' = Some(entries[1])
                 /\ (k >= 1 /\ k < Len(entries)) => selected' = Some(entries[k + 1])
        /\ (paused /\ ScrollUpSelection /\ entries # <<>>) =>
              LET k == PositionOf(entries, selected)
              IN /\ ~IsSome(selected) => selected' = Some(entries[1])
                 /\ k >= 2 => selected' = Some(entries[k - 1])
        /\ \A c \in SortColumns :
              (paused /\ SortByColumn(c)) =>
                 /\ sort_column' = c
                 /\ OrderedBy(entries', sort_column', sort_order')
        /\ \A source \in NavSources :
              Tick(source, NavProcs, [ip \in {} |-> TRUE]) =>
                 /\ ~paused
                 /\ \A sock \in NavSockets : HasRowOf(entries', sock) <=> InSource(source, sock)
                 /\ Len(entries') = IF IsSome(source) THEN Len(Unwrap(source)) ELSE 0 ]_vars

\* a paused App whose three-row snapshot has been put in descending order of
\* the remote port, with the selection on its last row
C13_Witness ==
    /\ paused
    /\ pc = "draw"
    /\ Len(entries) = 3
    /\ sort_column = "RemotePort"
    /\ sort_order = "Desc"
    /\ selected = Some(entries[3])
    /\ entries[1].remote_port = 443

\* C14: when the socket source returns an error on an unpaused tick, the
\* handler completes, entries becomes empty and selected is kept; a later
\* successful tick whose source has the selected connection again finds the
\* selection in the new list.
C14_SourceFailureDegrades ==
    [][ /\ TickRecorded(None, NavProcs, [ip \in {} |-> TRUE]) =>
              /\ entries' = <<>>
              /\ selected' = selected
              /\ pc' = "draw"
              /\ dns_cache' = dns_cache
        /\ \A source \in NavSources :
              ( /\ entries = <<>>
                /\ IsSome(selected)
                /\ TickRecorded(source, NavProcs, [ip \in {} |-> TRUE])
                /\ \E sock \in NavSockets :
                      InSource(source, sock) /\ IsRowOf(Unwrap(selected), sock) )
              => /\ selected' = selected
                 /\ PositionOf(entries', selected') >= 1
                 /\ EntryEq(entries'[PositionOf(entries', selected')], Unwrap(selected)) ]_vars

\* a tick has emptied a list that held the selected entry, and the selection
\* is still there
C14_Witness ==
    /\ pc = "draw"
    /\ entries = <<>>
    /\ IsSome(selected)
    /\ PositionOf(prior_entries, selected) >= 1
    /\ Len(prior_entries) = 3

\* every field of the App but the selection is left alone
OnlySelectionMayChange ==
    /\ entries' = entries
    /\ paused' = paused
    /\ sort_column' = sort_column /\ sort_order' = sort_order
    /\ ip_version_filter' = ip_version_filter
    /\ protocol_filter' = protocol_filter
    /\ resolve_address_names' = resolve_address_names
    /\ dns_cache' = dns_cache
    /\ scroll_connection_table' = scroll_connection_table
    /\ visible_table_height' = visible_table_height

\* C15: with nothing selected, Up and Down select the first entry of a
\* non-empty list; on an empty list Up and Down leave the selection and all
\* other state unchanged.
C15_FirstSelection ==
    [][ (ScrollUpSelection \/ ScrollDownSelection) =>
           /\ OnlySelectionMayChange
           /\ (~IsSome(selected) /\ entries # <<>>) => selected' = Some(entries[1])
           /\ entries = <<>> => selected' = selected ]_vars

\* the first row of a three-row list is selected
C15_Witness ==
    /\ pc = "draw"
    /\ Len(entries) = 3
    /\ selected = Some(entries[1])

\* C16: find_previous_entry returns the entry before the FIRST position k
\* of the target (None when the target is absent or k is the first
\* position), find_next_entry the entry after that position (None when
\* absent or k is the last position), also when the target occurs more than
\* once.
C16_FindAtFirstOccurrence ==
    IsSome(selected) =>
       LET target == Unwrap(selected)
           k == PositionOf(entries, selected)
       IN /\ FindPreviousEntry(entries, target)
               = IF k >= 2 THEN Some(entries[k - 1]) ELSE None
          /\ FindNextEntry(entries, target)
               = IF k >= 1 /\ k < Len(entries) THEN Some(entries[k + 1]) ELSE None

BothScenarioSockets == {Some(<<SockT4, SockU4>>), Some(<<SockU4, SockT4>>)}

\* C18: with the records TCP :22 (pid 10) and UDP :53 (pid 20), filters
\* Both/Both and sort LocalPort Asc, a refresh yields [port 22, port 53]; one
\* press of the protocol key moves the filter from Both to TcpOnly, and the
\* refresh under TcpOnly no longer lists the UDP row; the LocalPort key on
\* the two-row list sorted by LocalPort reverses it.
C18_EndToEndScenario ==
    [][ /\ \A source \in BothScenarioSockets :
              Tick(source, NavProcs, [ip \in {} |-> TRUE]) =>
                 /\ (protocol_filter = "TcpAndUdp" /\ sort_column = "LocalPort"
                     /\ sort_order = "Asc")
                    => /\ Len(entries') = 2
                       /\ IsRowOf(entries'[1], SockT4) /\ entries'[1].pid = 10
                       /\ IsRowOf(entries'[2], SockU4) /\ entries'[2].pid = 20
                 /\ protocol_filter = "TcpOnly"
                    => /\ Len(entries') = 1
                       /\ IsRowOf(entries'[1], SockT4)
                       /\ ~HasRowOf(entries', SockU4)
        /\ (ToggleProtoVersion /\ protocol_filter = "TcpAndUdp")
              => protocol_filter' = "TcpOnly"
        /\ (SortByColumn("LocalPort") /\ sort_column = "LocalPort" /\ Len(entries) = 2)
              => /\ entries' = RevSeq(entries)
                 /\ entries' # entries
                 /\ sort_order' # sort_order ]_vars

\* the filter is TcpOnly and the list, in descending order of the local
\* port, holds the TCP row alone
C18_Witness ==
    /\ pc = "draw"
    /\ protocol_filter = "TcpOnly"
    /\ sort_column = "LocalPort"
    /\ sort_order = "Desc"
    /\ Len(entries) = 1
    /\ IsRowOf(entries[1], SockT4)

\* what a render pass leaves alone: the list, the selection, the sort and
\* filter state, the pause flag and the name cache
RenderKeepsEngineData ==
    /\ entries' = entries
    /\ selected' = selected
    /\ sort_column' = sort_column /\ sort_order' = sort_order
    /\ ip_version_filter' = ip_version_filter
    /\ protocol_filter' = protocol_filter
    /\ resolve_address_names' = resolve_address_names
    /\ paused' = paused
    /\ dns_cache' = dns_cache

\* C19: a render pass (the step taken at the draw position of the loop)
\* leaves every piece of engine state unchanged: entries, selection, sort
\* state, filter state, scroll offset, viewport height, pause flag, DNS cache.
C19_RenderIsReadOnly ==
    [][ pc = "draw" =>
           /\ RenderKeepsEngineData
           /\ scroll_connection_table' = scroll_connection_table
           /\ visible_table_height' = visible_table_height ]_vars

\* C19 (amended): a render pass leaves entries, selection, sort state, filter
\* state, pause flag and DNS cache unchanged; it stores the viewport height
\* and may move the scroll offset.
C19_RenderKeepsAllButWindow ==
    [][ pc = "draw" => RenderKeepsEngineData ]_vars

\* a render pass with a selected row has moved the window off the top of
\* the list
C19_Witness ==
    /\ RenderedWithSelection
    /\ visible_table_height = 2
    /\ scroll_connection_table >= 1
    /\ Len(entries) = 3

\* q and r list the same socket records, each as often
SameRecords(q, r) ==
    /\ Len(q) = Len(r)
    /\ \A k \in 1..Len(q) :
          Cardinality({i \in 1..Len(q) : q[i] = q[k]})
             = Cardinality({i \in 1..Len(r) : r[i] = q[k]})

\* C20: the refreshed list does not depend on the order in which the source
\* returns the records: a tick fed any permutation of the same records,
\* under the same filter and sort state, builds the same entry list.
C20_OrderIndependentOfSourceOrder ==
    [][ \A source \in NavSources, other \in NavSources :
           ( /\ IsSome(source) /\ IsSome(other)
             /\ SameRecords(Unwrap(source), Unwrap(other))
             /\ Tick(source, NavProcs, [ip \in {} |-> TRUE]) )
           => entries' = UpdateConnectionEntries(other, NavProcs, [ip \in {} |-> TRUE],
                            protocol_filter, ip_version_filter, resolve_address_names,
                            sort_column, sort_order, dns_cache, lookups).entries ]_vars

\* the positions of the loop inside update_connection_entries
InsideRefresh == {"collect", "built", "sorted"}

\* C21: a render pass is never interleaved with a refresh or an intent
\* handler: the step that renders starts at the draw position of the loop,
\* a refresh once entered runs to its end with no other step in between,
\* and the list it leaves for the next render is the complete filtered,
\* sorted, de-duplicated list of the records the source returned.
C21_AtomicSnapshotReplacement ==
    [][ /\ pc' \in {"event", "panicked"} => pc = "draw"
        /\ pc \in InsideRefresh =>
              /\ pc' \in InsideRefresh \cup {"draw"}
              /\ visible_table_height' = visible_table_height
              /\ scroll_connection_table' = scroll_connection_table
              /\ <<selected, paused, sort_column, sort_order, ip_version_filter,
                   protocol_filter, resolve_address_names>>'
                 = <<selected, paused, sort_column, sort_order, ip_version_filter,
                     protocol_filter, resolve_address_names>>
        /\ (pc = "sorted" /\ pc' = "draw") =>
              LET r == Unwrap(refresh)
              IN entries' = UpdateConnectionEntries(r.source, r.procs, [ip \in {} |-> TRUE],
                               protocol_filter, ip_version_filter, resolve_address_names,
                               sort_column, sort_order, dns_cache, lookups).entries ]_vars

\* inside a refresh under TcpOnly: the first of two TCP records has been
\* pushed, the second has not
C21_Witness ==
    /\ pc = "collect"
    /\ protocol_filter = "TcpOnly"
    /\ Len(entries) = 1
    /\ RecordsLeft(Unwrap(refresh)) = 1
    /\ Unwrap(Unwrap(refresh).source)[2] \in {SockT4, SockT6}

\* C22: SortByColumn (the step that changes the sort column or direction)
\* only reorders: the entries after it are the entries before it, each as
\* often, and selection, filter state, pause flag and DNS cache are
\* unchanged.
C22_SortOnlyReorders ==
    [][ (sort_column' # sort_column \/ sort_order' # sort_order) =>
           /\ SameMembers(entries, entries')
           /\ selected' = selected
           /\ ip_version_filter' = ip_version_filter
           /\ protocol_filter' = protocol_filter
           /\ resolve_address_names' = resolve_address_names
           /\ paused' = paused
           /\ dns_cache' = dns_cache ]_vars

\* a three-row list holding one connection twice is in descending order of
\* the local port, so the two equal rows are neighbours, and a row is selected
C22_Witness ==
    /\ pc = "draw"
    /\ sort_column = "LocalPort"
    /\ sort_order = "Desc"
    /\ Len(entries) = 3
    /\ entries[1] = entries[2]
    /\ IsSome(selected)

\* the entries of es that tie with e under the comparator, in their order
TiedWith(es, e, column, order) ==
    SelectSeq(es, LAMBDA x : SortCmp(x, e, column, order) = Equal)

\* C23: sort_entries is stable in both directions: the entries that compare
\* Equal under the comparator of the active column and direction are in the
\* same relative order after the sort as before it.
C23_SortIsStable ==
    [][ (pc = "built" /\ pc' = "sorted") =>
           /\ SameMembers(entries, entries')
           /\ \A k \in 1..Len(entries) :
                 TiedWith(entries', entries[k], sort_column, sort_order)
                    = TiedWith(entries, entries[k], sort_column, sort_order) ]_vars

\* a list sorted in descending order holds two different entries that tie
\* and an entry that does not tie with them
C23_Witness ==
    /\ pc = "sorted"
    /\ sort_order = "Desc"
    /\ \E i, j, k \in 1..Len(entries) :
          /\ i < j
          /\ entries[i] # entries[j]
          /\ SortCmp(entries[i], entries[j], sort_column, sort_order) = Equal
          /\ SortCmp(entries[i], entries[k], sort_column, sort_order) # Equal

\* the addresses of a socket record that a row shows
AddressesOf(sock) ==
    IF sock.proto = "Tcp" THEN {sock.local_addr, sock.remote_addr} ELSE {sock.local_addr}

\* the addresses of the records of the source that pass the filters
ShownAddresses(source, pfilter, ipfilter) ==
    UNION {AddressesOf(sock) : sock \in {x \in Sockets :
              /\ InSource(source, x)
              /\ ProtocolMatches(x, pfilter)
              /\ FamilyMatches(x, ipfilter)}}

\* C24: a refresh asks the resolver and writes the cache only for addresses
\* of records that pass the filter in effect, and only with resolution
\* enabled: every key a step adds to dns_cache, and every lookup it makes,
\* is for such an address; with resolution disabled no step changes the
\* cache or makes a lookup.
C24_FilterBeforeResolution ==
    [][ (dns_cache' # dns_cache \/ lookups' # lookups) =>
           /\ resolve_address_names
           /\ \E source \in ResolveSources :
                 /\ \A ip \in IpAddrs :
                       (ip \in DOMAIN dns_cache' \ DOMAIN dns_cache \/ lookups'[ip] # lookups[ip])
                       => ip \in ShownAddresses(source, protocol_filter, ip_version_filter)
                 /\ \E resolver \in Resolvers(resolve_address_names, dns_cache) :
                       Tick(source, NavProcs, resolver) ]_vars

\* under UdpOnly / Ipv6Only, with resolution on, a refresh has listed the
\* UDP v6 row alone; the name of ::1 is cached and no IPv4 address has been
\* looked up
C24_Witness ==
    /\ pc = "draw"
    /\ resolve_address_names
    /\ protocol_filter = "UdpOnly"
    /\ ip_version_filter = "Ipv6Only"
    /\ DOMAIN dns_cache = {Ip6Loopback}
    /\ lookups[Ip4A] = 0 /\ lookups[Ip4B] = 0
    /\ Len(entries) = 1
    /\ entries[1].local_ip = dns_cache[Ip6Loopback]
    /\ entries[1].proto = StrUDP

\* no entry is ranked after its right neighbour by the comparator of
\* sort_entries for (column, order)
AdjacentInOrder(es, column, order) ==
    \A i \in 1..(Len(es) - 1) : SortCmp(es[i], es[i + 1], column, order) # Greater

\* C25: in every state between two handlers, whatever ticks, sort, filter,
\* DNS, pause and navigation keys came before, the comparator of the current
\* (sort_column, sort_order) ranks no entry after its right neighbour.
C25_EntriesStaySorted == AdjacentInOrder(entries, sort_column, sort_order)

\* a list of two rows that the comparator ranks strictly, shown in
\* descending order while a row is selected
C25_Witness ==
    /\ sort_order = "Desc"
    /\ Len(entries) = 2
    /\ SortCmp(entries[1], entries[2], sort_column, sort_order) = Less
    /\ IsSome(selected)

\* C26: after every refresh no two entries of the list, at whatever
\* positions, are equal under the identity tuple of PartialEq.
C26_NoTwoEqualEntries ==
    [][ (\E source \in FindSources :
            \E resolver \in Resolvers(resolve_address_names, dns_cache) :
               Tick(source, NavProcs, resolver))
        => \A i, j \in 1..Len(entries') :
              i < j => ~EntryEq(entries'[i], entries'[j]) ]_vars

\* how many of the three settings a step changes
SettingsChanged ==
    (IF ip_version_filter' # ip_version_filter THEN 1 ELSE 0)
    + (IF protocol_filter' # protocol_filter THEN 1 ELSE 0)
    + (IF resolve_address_names' # resolve_address_names THEN 1 ELSE 0)

\* C27: a step that changes the IP version filter, the protocol filter or
\* the DNS setting changes that one setting only: the entry list, the
\* selection, the sort state, the pause flag and the DNS cache are as before
\* (the list follows the new setting at the next refresh, not now).
C27_TogglesChangeOnlyTheirSetting ==
    [][ SettingsChanged > 0 =>
           /\ SettingsChanged = 1
           /\ UNCHANGED <<entries, selected, sort_column, sort_order, paused,
                          dns_cache, lookups>> ]_vars

\* while paused the protocol filter has been moved to UdpOnly and the list
\* still shows a TCP row, with the names the refresh had resolved
C27_Witness ==
    /\ paused
    /\ protocol_filter = "UdpOnly"
    /\ \E i \in 1..Len(entries) : entries[i].proto = StrTCP
    /\ ~resolve_address_names
    /\ DOMAIN dns_cache # {}

\* C28: no step of the loop takes a selection away: where an entry is
\* selected before a tick (read failed, empty or not), a navigation, sort,
\* filter, pause or DNS key, an entry is selected after it.
C28_SelectionNeverCleared ==
    [][ IsSome(selected) => IsSome(selected') ]_vars

\* an entry is still selected after a refresh that left the list empty
C28_Witness ==
    /\ IsSome(selected)
    /\ entries = <<>>
    /\ ~paused

\* no two entries of the list are equal under PartialEq
PairwiseDistinct(es) ==
    \A i, j \in 1..Len(es) : i < j => ~EntryEq(es[i], es[j])

\* C29: on a list of pairwise distinct entries, the Up key with the first
\* entry selected and the Down key with the last entry selected leave the
\* selection as it is.
C29_NoWrapAtTheEdges ==
    [][ (PairwiseDistinct(entries) /\ IsSome(selected) /\ entries # <<>>) =>
           /\ (EntryEq(Unwrap(selected), entries[1]) /\ ScrollUpSelection)
                 => selected' = selected
           /\ (EntryEq(Unwrap(selected), entries[Len(entries)]) /\ ScrollDownSelection)
                 => selected' = selected ]_vars

\* the last of three pairwise distinct entries is selected
C29_Witness ==
    /\ Len(entries) = 3
    /\ PairwiseDistinct(entries)
    /\ IsSome(selected)
    /\ EntryEq(Unwrap(selected), entries[3])

\* C30: on a list of n pairwise distinct entries with the entry at index k
\* selected, Down then Up gives the entry at k again when k < n-1, and Up
\* then Down gives it again when k > 0 (the list is the same for both keys;
\* the entry is the same under PartialEq).
C30_NavigationRoundTrip ==
    (PairwiseDistinct(entries) /\ PositionOf(entries, selected) > 0) =>
       /\ PositionOf(entries, selected) < Len(entries)
             => /\ PositionOf(entries, ScrollDownSelected(entries, selected))
                      = PositionOf(entries, selected) + 1
                /\ EntryEq(Unwrap(ScrollUpSelected(entries,
                                     ScrollDownSelected(entries, selected))),
                           Unwrap(selected))
       /\ PositionOf(entries, selected) > 1
             => /\ PositionOf(entries, ScrollUpSelected(entries, selected))
                      = PositionOf(entries, selected) - 1
                /\ EntryEq(Unwrap(ScrollDownSelected(entries,
                                     ScrollUpSelected(entries, selected))),
                           Unwrap(selected))

\* the middle one of three pairwise distinct entries is selected, so both
\* round trips apply
C30_Witness ==
    /\ Len(entries) = 3
    /\ PairwiseDistinct(entries)
    /\ PositionOf(entries, selected) = 2

\* the scroll adjustment of render_connection_table applied once more to the
\* offset a render pass has just stored, with the same list, selection and
\* viewport height
AdjustedAgain ==
    ScrollAdjust(scroll_connection_table', SelectedIndex(entries, selected),
                 visible_table_height', overflow_checks)

\* C31: a render pass with a viewport of height h >= 1 and a selected row
\* leaves a scroll offset that the scroll adjustment, run once more with the
\* same selection, list and viewport, does not move.
C31_ScrollAdjustIdempotent ==
    [][ (/\ pc = "draw"
         /\ pc' = "event"
         /\ visible_table_height' >= 1
         /\ IsSome(SelectedIndex(entries, selected)))
        => (~AdjustedAgain.panic /\ AdjustedAgain.scroll = scroll_connection_table') ]_vars

====
